---- MODULE Spec2Model ----
(***************************************************************************)
(* Compilation pipeline of the Strudel orchestrator                        *)
(* (src/src/strudel_orchestrator/orchestrator.py, linter.py, schema.py,    *)
(* logger.py).                                                             *)
(*                                                                         *)
(* Text is a sequence of characters.  A character is a one-element string; *)
(* a run of characters that no operation of the pipeline looks into (a     *)
(* YAML "key: value" line, an identifier of the pattern language) is kept  *)
(* as one multi-character element.  Positions are 0-based as in Python.    *)
(* Messages are the source's, with its backquotes written as quotes.       *)
(***************************************************************************)
EXTENDS Integers, Sequences, FiniteSets, TLC

\* ------------------------------------------------------------------ bounds
\* Largest number of *.strudel files in the tracks directory.
MaxTracks == 2
\* Number of times compile_project is run over the same inputs.
MaxRuns == 2
\* How many snippets a pattern code handed to validate_pattern_code is made of.
MaxSnippets == 3
\* Longest slug string handed to validate_metadata.
MaxSlugLen == 3
\* How many pieces a text handed to _split_front_matter is made of.
MaxPieces == 5

\* ------------------------------------------------------------------- text
LF == "\n"
CR == "\r"
SP == " "
TAB == "\t"
DASH == "-"

\* Characters str.strip() removes (str.strip, no argument).
Whitespace == {SP, TAB, LF, CR}

Min(a, b) == IF a < b THEN a ELSE b
Max(a, b) == IF a > b THEN a ELSE b

\* Python s[a:b] for 0 <= a.
Slice(s, a, b) ==
  LET hi == Min(b, Len(s))
  IN IF a >= hi THEN <<>> ELSE [i \in 1..(hi - a) |-> s[a + i]]

\* Python s[a:].
SliceFrom(s, a) == Slice(s, a, Len(s))

\* Python s.startswith(p).
StartsWith(s, p) == Len(p) <= Len(s) /\ \A i \in 1..Len(p) : s[i] = p[i]

\* p occurs in s at 0-based position i.
OccursAt(s, p, i) ==
  i >= 0 /\ i + Len(p) <= Len(s) /\ \A k \in 1..Len(p) : s[i + k] = p[k]

\* Python s.find(p, start): the lowest position >= start, or -1.
Find(s, p, start) ==
  LET hits == {i \in start..Len(s) : OccursAt(s, p, i)}
  IN IF hits = {} THEN -1 ELSE CHOOSE i \in hits : \A j \in hits : i <= j

\* Python "p in s".
Contains(s, p) == Find(s, p, 0) # -1

\* Python s.strip().
Strip(s) ==
  LET keep == {i \in 1..Len(s) : s[i] \notin Whitespace}
  IN IF keep = {} THEN <<>>
     ELSE LET lo == CHOOSE i \in keep : \A j \in keep : i <= j
              hi == CHOOSE i \in keep : \A j \in keep : i >= j
          IN [i \in 1..(hi - lo + 1) |-> s[lo + i - 1]]

\* Python s.replace(c, "") for a single character c.
RECURSIVE RemoveChar(_, _)
RemoveChar(s, c) ==
  IF s = <<>> THEN <<>>
  ELSE IF Head(s) = c THEN RemoveChar(Tail(s), c)
       ELSE <<Head(s)>> \o RemoveChar(Tail(s), c)

\* Path.read_text(encoding="utf-8") opens the file in text mode with
\* newline=None: "\r\n" and a lone "\r" are both read as "\n".
RECURSIVE UniversalNewlines(_)
UniversalNewlines(bytes) ==
  IF bytes = <<>> THEN <<>>
  ELSE IF Head(bytes) = CR
       THEN IF Len(bytes) >= 2 /\ bytes[2] = LF
            THEN <<LF>> \o UniversalNewlines(Tail(Tail(bytes)))
            ELSE <<LF>> \o UniversalNewlines(Tail(bytes))
       ELSE <<Head(bytes)>> \o UniversalNewlines(Tail(bytes))

\* Path.write_text(text, encoding="utf-8") opens the file in text mode with
\* newline=None: every "\n" is written as the platform's os.linesep.
RECURSIVE WriteNewlines(_, _)
WriteNewlines(text, linesep) ==
  IF text = <<>> THEN <<>>
  ELSE IF Head(text) = LF THEN linesep \o WriteNewlines(Tail(text), linesep)
       ELSE <<Head(text)>> \o WriteNewlines(Tail(text), linesep)

\* ---------------------------------------------------------- Python values
\* A decoded value carries its Python type; each type keeps its payload in a
\* field of its own.
PyNone == [t |-> "none"]
PyStr(s) == [t |-> "str", s |-> s]
PyInt(i) == [t |-> "int", i |-> i]
\* An int beyond the range of a float (float() raises OverflowError on it).
PyBigInt == [t |-> "bigint"]
\* A finite float n/d with d a power of ten.
PyFloat(n, d) == [t |-> "float", n |-> n, d |-> d]
PyNaN == [t |-> "nan"]
PyBool(b) == [t |-> "bool", b |-> b]
PyList(items) == [t |-> "list", items |-> items]
\* A mapping: the keys it has, and the value of each.
PyDict(keys, get) == [t |-> "dict", keys |-> keys, get |-> get]

MetadataKeys == {"slug", "title", "tempo", "mood", "tags", "summary", "resources"}

\* dict.get(key): None when the key is absent.
Get(metadata, key) ==
  IF key \in metadata.keys THEN metadata.get[key] ELSE PyNone

\* Python truthiness, bool(value).
Truthy(value) ==
  CASE value.t = "none" -> FALSE
    [] value.t = "str" -> value.s # <<>>
    [] value.t = "int" -> value.i # 0
    [] value.t = "bigint" -> TRUE
    [] value.t = "float" -> value.n # 0
    [] value.t = "nan" -> TRUE
    [] value.t = "bool" -> value.b
    [] value.t = "list" -> value.items # <<>>
    [] value.t = "dict" -> value.keys # {}

\* --------------------------------------------------- _split_front_matter
Delimiter == <<DASH, DASH, DASH>>

\* Only a leading "\n" is removed.
DropLineFeed(remainder) ==
  IF StartsWith(remainder, <<LF>>) THEN SliceFrom(remainder, 1) ELSE remainder

\* "remainder" with one leading line terminator removed.
DropLineTerminator(remainder) ==
  IF StartsWith(remainder, <<CR, LF>>) THEN SliceFrom(remainder, 2)
  ELSE IF StartsWith(remainder, <<LF>>) THEN SliceFrom(remainder, 1)
  ELSE remainder

\* The split at a closing delimiter found at end_index (-1: not found).
SplitAt(raw_text, delimiter, end_index) ==
  IF end_index = -1
  THEN [metadata_text |-> PyNone, code |-> raw_text]
  ELSE [metadata_text |-> PyStr(Strip(Slice(raw_text, 3, end_index))),
        code |-> DropLineTerminator(SliceFrom(raw_text, end_index + Len(delimiter)))]

\* The search in the other order: "\r\n---", then "\n---".
SplitAtClosingCrlfFirst(raw_text, lf_index) ==
  IF Find(raw_text, <<CR, LF>> \o Delimiter, 3) # -1
  THEN SplitAt(raw_text, <<CR, LF>> \o Delimiter,
               Find(raw_text, <<CR, LF>> \o Delimiter, 3))
  ELSE SplitAt(raw_text, <<LF>> \o Delimiter, lf_index)

\* The search for the closing delimiter: "\n---", then "\r\n---".
SplitAtClosing(raw_text, lf_index) ==
  IF lf_index # -1
  THEN SplitAt(raw_text, <<LF>> \o Delimiter, lf_index)
  ELSE SplitAt(raw_text, <<CR, LF>> \o Delimiter,
               Find(raw_text, <<CR, LF>> \o Delimiter, 3))

\* An opening delimiter without a closing one takes the rest as front matter.
SplitFrontMatterToEnd(raw_text) ==
  IF ~StartsWith(raw_text, Delimiter)
  THEN [metadata_text |-> PyNone, code |-> raw_text]
  ELSE IF Find(raw_text, <<LF>> \o Delimiter, 3) = -1
       THEN [metadata_text |-> PyStr(Strip(SliceFrom(raw_text, 3))), code |-> <<>>]
       ELSE SplitAtClosing(raw_text, Find(raw_text, <<LF>> \o Delimiter, 3))

\* _split_front_matter(raw_text) -> (metadata_text, code)
SplitFrontMatter(raw_text) ==
  IF ~StartsWith(raw_text, Delimiter)
  THEN [metadata_text |-> PyNone, code |-> raw_text]
  ELSE SplitAtClosing(raw_text, Find(raw_text, <<LF>> \o Delimiter, 3))

\* ------------------------------------------------------------- characters
Digits == {"0", "1", "2", "3", "4", "5", "6", "7", "8", "9"}
DigitVal(c) ==
  CASE c = "0" -> 0 [] c = "1" -> 1 [] c = "2" -> 2 [] c = "3" -> 3
    [] c = "4" -> 4 [] c = "5" -> 5 [] c = "6" -> 6 [] c = "7" -> 7
    [] c = "8" -> 8 [] c = "9" -> 9
DigitChar(n) ==
  CASE n = 0 -> "0" [] n = 1 -> "1" [] n = 2 -> "2" [] n = 3 -> "3"
    [] n = 4 -> "4" [] n = 5 -> "5" [] n = 6 -> "6" [] n = 7 -> "7"
    [] n = 8 -> "8" [] n = 9 -> "9"
LowerLetters == {"a", "b", "m", "s", "x", "y"}
UpperLetters == {"A", "B", "M", "S", "X", "Y", "T"}
\* str.lower() on one character.
LowerChar(c) ==
  CASE c = "A" -> "a" [] c = "B" -> "b" [] c = "M" -> "m" [] c = "S" -> "s"
    [] c = "X" -> "x" [] c = "Y" -> "y" [] c = "T" -> "t" [] OTHER -> c
Lower(s) == [i \in 1..Len(s) |-> LowerChar(s[i])]

\* The characters of a text as one string (for messages that quote it).
RECURSIVE Join(_)
Join(s) == IF s = <<>> THEN "" ELSE Head(s) \o Join(Tail(s))

RECURSIVE Pow10(_)
Pow10(k) == IF k = 0 THEN 1 ELSE 10 * Pow10(k - 1)

\* The value of a run of digits.
RECURSIVE DigitsValue(_)
DigitsValue(s) ==
  IF s = <<>> THEN 0
  ELSE DigitsValue(SubSeq(s, 1, Len(s) - 1)) * 10 + DigitVal(s[Len(s)])

AllDigits(s) == \A i \in 1..Len(s) : s[i] \in Digits

\* s without a leading sign.
Unsigned(s) == IF s # <<>> /\ s[1] \in {"-", "+"} THEN Tail(s) ELSE s

\* Where the decimal point of body is (past its end: it has none).
DotPos(body) ==
  IF \E i \in 1..Len(body) : body[i] = "."
  THEN CHOOSE i \in 1..Len(body) : body[i] = "." ELSE Len(body) + 1

\* [0-9]*\.?[0-9]+ matched against the whole of body.
IsUnsignedLiteral(body) ==
  /\ body # <<>>
  /\ Cardinality({i \in 1..Len(body) : body[i] = "."}) <= 1
  /\ \A i \in 1..Len(body) : body[i] \in Digits \cup {"."}
  /\ body[Len(body)] \in Digits

\* [-+]?[0-9]*\.?[0-9]+ matched against the whole of s.
IsNumericLiteral(s) == IsUnsignedLiteral(Unsigned(s))

\* The value whole.frac as n/d, negated when neg.
DecimalValue(neg, whole, frac) ==
  [n |-> (IF neg THEN -1 ELSE 1) * (DigitsValue(whole) * Pow10(Len(frac)) + DigitsValue(frac)),
   d |-> Pow10(Len(frac))]

UnsignedValue(neg, body, dot) ==
  DecimalValue(neg, SubSeq(body, 1, dot - 1), SubSeq(body, dot + 1, Len(body)))

\* float() of a text IsNumericLiteral accepts, as n/d.
LiteralValue(s) == UnsignedValue(s[1] = "-", Unsigned(s), DotPos(Unsigned(s)))

\* repr() of the float n/d (n >= 0), as Python prints it in an f-string.
RECURSIVE FracDigits(_, _)
FracDigits(n, d) ==
  IF d = 1 THEN ""
  ELSE DigitChar(n \div (d \div 10)) \o FracDigits(n % (d \div 10), d \div 10)
RECURSIVE FloatReprOf(_, _)
FloatReprOf(n, d) ==
  IF d > 10 /\ n % 10 = 0 THEN FloatReprOf(n \div 10, d \div 10)
  ELSE ToString(n \div d) \o "." \o FracDigits(n % d, d)
FloatRepr(n, d) == IF d = 1 THEN FloatReprOf(n * 10, 10) ELSE FloatReprOf(n, d)

\* ------------------------------------------------------------- schema.py
\* The concatenation f[1] \o ... \o f[n] of the sequences f holds.
RECURSIVE ConcatUpTo(_, _)
ConcatUpTo(f, n) == IF n = 0 THEN <<>> ELSE ConcatUpTo(f, n - 1) \o f[n]

\* [a-z0-9]+(?:-[a-z0-9]+)* matched against the whole of s.
Kebab(s) ==
  /\ s # <<>>
  /\ \A i \in 1..Len(s) : s[i] \in LowerLetters \cup Digits \cup {DASH}
  /\ s[1] # DASH /\ s[Len(s)] # DASH
  /\ \A i \in 1..(Len(s) - 1) : ~(s[i] = DASH /\ s[i + 1] = DASH)

\* SLUG_PATTERN.match(slug): in Python "$" matches at the end of the string
\* and also just before a newline that ends the string.
SlugPatternMatch(s) ==
  \/ Kebab(s)
  \/ s # <<>> /\ s[Len(s)] = LF /\ Kebab(SubSeq(s, 1, Len(s) - 1))

\* isinstance(value, str) and value.strip() is non-empty.
NonBlankStr(value) == value.t = "str" /\ Strip(value.s) # <<>>

\* float(text): Python strips the text, then reads a sign, digits and at most
\* one point, with a digit on at least one side of it.
IsFloatBody(body) ==
  /\ \A i \in 1..Len(body) : body[i] \in Digits \cup {"."}
  /\ Cardinality({i \in 1..Len(body) : body[i] = "."}) <= 1
  /\ \E i \in 1..Len(body) : body[i] \in Digits
IsFloatText(s) == IsFloatBody(Unsigned(s))

FloatTextValue(s) ==
  IF s[Len(s)] = "." THEN LiteralValue(SubSeq(s, 1, Len(s) - 1)) ELSE LiteralValue(s)

Finite(v) == [exc |-> "none", nan |-> FALSE, n |-> v.n, d |-> v.d]
FloatRaises(e) == [exc |-> e, nan |-> FALSE, n |-> 0, d |-> 1]

\* float(text) of a stripped text.
StrToFloat(s) ==
  IF IsFloatText(s) THEN Finite(FloatTextValue(s)) ELSE FloatRaises("ValueError")

\* float(tempo): the value n/d, or the exception raised.
ToFloat(value) ==
  CASE value.t = "int" -> Finite([n |-> value.i, d |-> 1])
    [] value.t = "float" -> Finite(value)
    [] value.t = "nan" -> [exc |-> "none", nan |-> TRUE, n |-> 0, d |-> 1]
    [] value.t = "bool" -> Finite([n |-> IF value.b THEN 1 ELSE 0, d |-> 1])
    [] value.t = "bigint" -> FloatRaises("OverflowError")
    [] value.t = "str" -> StrToFloat(Strip(value.s))
    [] OTHER -> FloatRaises("TypeError")

SlugErrors(slug) ==
  IF ~Truthy(slug) THEN <<"'slug' is required.">>
  ELSE IF slug.t # "str" \/ ~SlugPatternMatch(slug.s)
       THEN <<"'slug' must be kebab-case (lowercase alphanumerics separated by dashes).">>
       ELSE <<>>

TitleErrors(title) ==
  IF ~NonBlankStr(title) THEN <<"'title' must be a non-empty string.">> ELSE <<>>

\* The try block of validate_metadata on tempo_value = float(tempo).
TempoValueErrors(f) ==
  IF f.exc \in {"TypeError", "ValueError"} THEN <<"'tempo' must be numeric.">>
  ELSE IF f.exc = "none" /\ ~f.nan /\ f.n <= 0
       THEN <<"'tempo' must be a positive number.">>
       ELSE <<>>

TempoValueWarnings(f) ==
  IF f.exc = "none" /\ (f.nan \/ (f.n > 0 /\ f.n % f.d # 0))
  THEN <<"'tempo' should normally be an integer.">>
  ELSE <<>>

TempoErrors(tempo) ==
  IF tempo.t = "none" THEN <<"'tempo' (cycles per minute) is required.">>
  ELSE TempoValueErrors(ToFloat(tempo))

TempoWarnings(tempo) ==
  IF tempo.t = "none" THEN <<>> ELSE TempoValueWarnings(ToFloat(tempo))

\* The exception float(tempo) raises that validate_metadata does not catch.
TempoRaises(tempo) ==
  IF tempo.t # "none" /\ ToFloat(tempo).exc = "OverflowError"
  THEN "OverflowError" ELSE "none"

MoodWarnings(mood) ==
  IF ~NonBlankStr(mood)
  THEN <<"'mood' is recommended to help downstream curation.">> ELSE <<>>

TagsErrors(tags) ==
  IF tags.t # "list" \/ tags.items = <<>> THEN <<>>
  ELSE ConcatUpTo([i \in 1..Len(tags.items) |->
         IF ~NonBlankStr(tags.items[i])
         THEN <<"Tag #" \o ToString(i) \o " must be a non-empty string.">>
         ELSE <<>>], Len(tags.items))

TagsWarnings(tags) ==
  IF tags.t # "list" \/ tags.items = <<>>
  THEN <<"'tags' array is recommended for filtering (minimum 2).">>
  ELSE (IF Len(tags.items) < 2
        THEN <<"Provide at least 2 tags for better discovery.">> ELSE <<>>)
       \o ConcatUpTo([i \in 1..Len(tags.items) |->
            IF NonBlankStr(tags.items[i]) /\ tags.items[i].s # Lower(tags.items[i].s)
            THEN <<"Tag \"" \o Join(tags.items[i].s) \o "\" should be lowercase.">>
            ELSE <<>>], Len(tags.items))

SummaryWarnings(summary) ==
  IF ~NonBlankStr(summary)
  THEN <<"'summary' is recommended to describe the arrangement.">> ELSE <<>>

ResourcesErrors(resources) ==
  IF resources.t \notin {"none", "list"}
  THEN <<"'resources' must be a list of strings if provided.">> ELSE <<>>

ResourcesWarnings(resources) ==
  IF resources.t # "list" THEN <<>>
  ELSE ConcatUpTo([i \in 1..Len(resources.items) |->
         IF ~NonBlankStr(resources.items[i])
         THEN <<"Resource #" \o ToString(i) \o " should be a non-empty string.">>
         ELSE <<>>], Len(resources.items))

\* validate_metadata(metadata) -> (errors, warnings); raised names the
\* exception that escapes it instead, if any.
ValidateMetadata(metadata) ==
  IF metadata.t # "dict"
  THEN [raised |-> "none",
        errors |-> <<"Metadata block is missing or malformed.">>,
        warnings |-> <<>>]
  ELSE [raised |-> TempoRaises(Get(metadata, "tempo")),
        errors |-> SlugErrors(Get(metadata, "slug"))
                   \o TitleErrors(Get(metadata, "title"))
                   \o TempoErrors(Get(metadata, "tempo"))
                   \o TagsErrors(Get(metadata, "tags"))
                   \o ResourcesErrors(Get(metadata, "resources")),
        warnings |-> TempoWarnings(Get(metadata, "tempo"))
                     \o MoodWarnings(Get(metadata, "mood"))
                     \o TagsWarnings(Get(metadata, "tags"))
                     \o SummaryWarnings(Get(metadata, "summary"))
                     \o ResourcesWarnings(Get(metadata, "resources"))]

\* GAIN_PATTERN:  \.gain\(\s*([-+]?[0-9]*\.?[0-9]+)\s*\)
GainSpace == {SP, TAB, LF, CR}

\* The literal between the parentheses at 1-based open .. close, or <<>>.
GainLiteral(code, open, close) ==
  IF /\ \A k \in (open + 1)..(close - 1) :
          code[k] \in GainSpace \cup Digits \cup {".", "-", "+"}
     /\ IsNumericLiteral(Strip(SubSeq(code, open + 1, close - 1)))
  THEN Strip(SubSeq(code, open + 1, close - 1)) ELSE <<>>

\* One match of GAIN_PATTERN starting at 0-based position i of code: the
\* captured literal, or <<>> when there is no match at i.
GainMatchAt(code, i) ==
  IF OccursAt(code, <<".gain", "(">>, i) /\ \E j \in (i + 3)..Len(code) : code[j] = ")"
  THEN GainLiteral(code, i + 2,
         CHOOSE j \in (i + 3)..Len(code) :
           code[j] = ")" /\ \A k \in (i + 3)..(j - 1) : code[k] # ")")
  ELSE <<>>

\* The comparison lets a literal of exactly 1 through as too loud.
GainWarningFromOne(numeric) ==
  IF numeric.n >= numeric.d
  THEN <<"Gain literal " \o FloatRepr(numeric.n, numeric.d)
         \o " detected; consider keeping it <= 1 to avoid clipping.">>
  ELSE <<>>

GainWarning(numeric) ==
  IF numeric.n > numeric.d
  THEN <<"Gain literal " \o FloatRepr(numeric.n, numeric.d)
         \o " detected; consider keeping it <= 1 to avoid clipping.">>
  ELSE <<>>

GainWarningOf(lit) == IF lit = <<>> THEN <<>> ELSE GainWarning(LiteralValue(lit))

\* The gain warnings, one per match, in order of occurrence.
GainWarnings(code) ==
  ConcatUpTo([p \in 1..Len(code) |-> GainWarningOf(GainMatchAt(code, p - 1))], Len(code))

TempoCallWarning(stripped) ==
  IF ~Contains(stripped, <<"setcpm", "(">>) /\ ~Contains(stripped, <<"setcps", "(">>)
  THEN <<"Set tempo explicitly with 'setcpm(...)' once near the top.">>
  ELSE <<>>

\* The blank test without the strip: whitespace counts as a body.
ValidatePatternCodeUntrimmed(code) ==
  IF code.t # "str" \/ code.s = <<>>
  THEN [errors |-> <<"Pattern body is empty.">>, warnings |-> <<>>]
  ELSE [errors |-> <<>>,
        warnings |-> TempoCallWarning(RemoveChar(code.s, SP)) \o GainWarnings(code.s)]

\* validate_pattern_code(code) -> (errors, warnings)
ValidatePatternCode(code) ==
  IF code.t # "str" \/ Strip(code.s) = <<>>
  THEN [errors |-> <<"Pattern body is empty.">>, warnings |-> <<>>]
  ELSE [errors |-> <<>>,
        warnings |-> TempoCallWarning(RemoveChar(code.s, SP)) \o GainWarnings(code.s)]

\* --------------------------------------------------------- yaml.safe_load
\* The front matter vocabulary: what one "key: value" line decodes to.
\* "tempo: 1000...000" stands for a one followed by four hundred zeros.
YamlEntry(line) ==
  CASE line = "slug: a" -> [kind |-> "pair", key |-> "slug", value |-> PyStr(<<"a">>)]
    [] line = "slug: b" -> [kind |-> "pair", key |-> "slug", value |-> PyStr(<<"b">>)]
    [] line = "title: T" -> [kind |-> "pair", key |-> "title", value |-> PyStr(<<"T">>)]
    [] line = "tempo: 90" -> [kind |-> "pair", key |-> "tempo", value |-> PyInt(90)]
    [] line = "tempo: fast" ->
         [kind |-> "pair", key |-> "tempo", value |-> PyStr(<<"f", "a", "s", "t">>)]
    [] line = "tempo: 1000...000" -> [kind |-> "pair", key |-> "tempo", value |-> PyBigInt]
    [] line = "mood: m" -> [kind |-> "pair", key |-> "mood", value |-> PyStr(<<"m">>)]
    [] line = "tags: [x, y]" ->
         [kind |-> "pair", key |-> "tags", value |-> PyList(<<PyStr(<<"x">>), PyStr(<<"y">>)>>)]
    [] line = "summary: s" -> [kind |-> "pair", key |-> "summary", value |-> PyStr(<<"s">>)]
    [] line = "plain text" -> [kind |-> "scalar", key |-> "", value |-> PyStr(<<"plain text">>)]
    [] OTHER -> [kind |-> "invalid", key |-> "", value |-> PyNone]

\* The lines of a text, split at "\n", empty lines dropped.
RECURSIVE SplitLines(_, _)
SplitLines(text, cur) ==
  IF text = <<>> THEN (IF cur = <<>> THEN <<>> ELSE <<cur>>)
  ELSE IF Head(text) = LF
       THEN (IF cur = <<>> THEN <<>> ELSE <<cur>>) \o SplitLines(Tail(text), <<>>)
       ELSE SplitLines(Tail(text), Append(cur, Head(text)))

\* What line i of lines decodes to.
LineEntry(lines, i) ==
  IF Len(lines[i]) = 1 THEN YamlEntry(lines[i][1])
  ELSE [kind |-> "invalid", key |-> "", value |-> PyNone]

\* The value of key k: that of the last line that gives it.
LastValue(lines, k) ==
  LineEntry(lines,
    CHOOSE i \in 1..Len(lines) :
      LineEntry(lines, i).key = k
      /\ \A j \in (i + 1)..Len(lines) : LineEntry(lines, j).key # k).value

YamlMapping(lines, keys) == PyDict(keys, [k \in keys |-> LastValue(lines, k)])

YamlDocument(lines) ==
  IF lines = <<>> THEN [ok |-> TRUE, value |-> PyNone]
  ELSE IF \A i \in 1..Len(lines) : LineEntry(lines, i).kind = "pair"
       THEN [ok |-> TRUE,
             value |-> YamlMapping(lines, {LineEntry(lines, i).key : i \in 1..Len(lines)})]
       ELSE IF Len(lines) = 1 /\ LineEntry(lines, 1).kind = "scalar"
            THEN [ok |-> TRUE, value |-> LineEntry(lines, 1).value]
            ELSE [ok |-> FALSE, value |-> PyNone]

\* yaml.safe_load(metadata_text): the decoded value, or the YAMLError.
YamlSafeLoad(metadata_text) == YamlDocument(SplitLines(metadata_text, <<>>))

\* ------------------------------------------------------------ load_track
\* A lint message; lint_error is PyNone or a message.
Msg(s) == [t |-> "msg", s |-> s]

\* TrackArtifact.slug
ArtifactSlug(artifact) ==
  IF artifact.metadata.t = "dict" /\ Get(artifact.metadata, "slug").t = "str"
  THEN Get(artifact.metadata, "slug") ELSE PyNone

\* The line load_track logs for the artifact.
LoadLogged(errors, warnings) ==
  IF errors # <<>> THEN [level |-> "error", message |-> "Validation failed"]
  ELSE IF warnings # <<>> THEN [level |-> "warn", message |-> "Validation warnings"]
       ELSE [level |-> "info", message |-> "Track OK"]

\* "errors = ...; warnings = ...; artifact = TrackArtifact(...)" and the log.
Assemble(path, raw_text, metadata, code, raised, errors, warnings) ==
  [raised |-> raised,
   artifact |-> [path |-> path,
                 raw_content |-> raw_text,
                 metadata |-> metadata,
                 code |-> code,
                 errors |-> errors,
                 warnings |-> warnings,
                 lint_error |-> PyNone],
   logged |-> LoadLogged(errors, warnings)]

Validated(path, raw_text, metadata, code, mv, cv) ==
  Assemble(path, raw_text, metadata, code, mv.raised,
           mv.errors \o cv.errors, mv.warnings \o cv.warnings)

\* "if metadata_errors: ... else: validate_metadata(metadata)"
MetadataValidation(metadata_errors, metadata) ==
  IF metadata_errors # <<>>
  THEN [raised |-> "none", errors |-> metadata_errors, warnings |-> <<>>]
  ELSE ValidateMetadata(metadata)

\* "if metadata_text is None: ... else: try: yaml.safe_load(...)"
MetadataErrors(metadata_text, loaded) ==
  IF metadata_text.t = "none"
  THEN <<"YAML front matter block is required at top of file.">>
  ELSE IF ~loaded.ok THEN <<"Failed to parse YAML front matter: <diagnostic>">>
       ELSE <<>>

Decoded(path, raw_text, split, loaded) ==
  Validated(path, raw_text, loaded.value, split.code,
            MetadataValidation(MetadataErrors(split.metadata_text, loaded), loaded.value),
            ValidatePatternCode(PyStr(split.code)))

DecodeMetadata(metadata_text) ==
  IF metadata_text.t = "none" THEN [ok |-> FALSE, value |-> PyNone]
  ELSE YamlSafeLoad(metadata_text.s)

LoadSplit(path, raw_text, split) ==
  Decoded(path, raw_text, split, DecodeMetadata(split.metadata_text))

LoadText(path, raw_text) == LoadSplit(path, raw_text, SplitFrontMatter(raw_text))

\* load_track(path, logger) on a readable file holding bytes: the artifact,
\* the line it logs, and the exception that escapes instead, if any.
LoadTrack(path, bytes) == LoadText(path, UniversalNewlines(bytes))

\* ----------------------------------------------------------- source files
\* A track file: the front matter lines between two delimiter lines, then
\* the pattern code, every line ended by the terminator nl.
RECURSIVE LinesOf(_, _)
LinesOf(lines, nl) ==
  IF lines = <<>> THEN <<>> ELSE <<Head(lines)>> \o nl \o LinesOf(Tail(lines), nl)

PatternLines == <<"setcpm", "(", "9", "0", ")">>
TrackFile(meta, nl) ==
  Delimiter \o nl \o LinesOf(meta, nl) \o Delimiter \o nl
  \o PatternLines \o nl \o <<"s(\"bd\")">> \o nl

FullMeta(slug) ==
  <<slug, "title: T", "tempo: 90", "mood: m", "tags: [x, y]", "summary: s">>
MinimalMeta(slug) == <<slug, "title: T", "tempo: 90">>

\* The file of tests/test_orchestrator.py: no front matter.
BadTrack == <<"setcpm", "(", "1", "2", "0", ")", LF, "s(\"bd\")", LF>>

Readable(bytes) == [readable |-> TRUE, bytes |-> bytes]
\* A file read_text cannot read (permissions, or bytes that are not UTF-8).
Unreadable == [readable |-> FALSE, bytes |-> <<>>]

SourceFiles ==
  { Readable(TrackFile(FullMeta("slug: a"), <<LF>>)),
    Readable(TrackFile(MinimalMeta("slug: a"), <<LF>>)),
    Readable(TrackFile(FullMeta("slug: b"), <<CR, LF>>)),
    Readable(BadTrack),
    Unreadable }

\* -------------------------------------------------------------- settings
SUPPORTED_FORMATS == {"json", "md", "raw"}

\* str.lower() on a format name.
LowerFormat(fmt) ==
  CASE fmt = "MD" -> "md" [] fmt = "JSON" -> "json" [] fmt = "RAW" -> "raw" [] OTHER -> fmt

\* The values of settings.formats the runs are made with.
FormatChoices == {{"json", "md", "raw"}, {"MD"}, {"raw", "xml"}}

\* ------------------------------------------------------------------ state
VARIABLES
  tracksDir,      \* the *.strudel files of settings.tracks_dir, in sorted path order
  settings,       \* CompilationSettings: formats, check_only
  world,          \* what the environment has answered so far (it answers a rerun the same)
  run,            \* which run of compile_project this is
  pc,             \* where compile_project stands
  idx,            \* next track path to load
  artifacts,      \* compile_project's artifacts list
  lintQueue,      \* lint_tracks' filtered artifacts (their paths)
  lintIdx,        \* next entry of lintQueue to lint
  lintCalls,      \* paths handed to linter.lint in this run, in call order
  lint_failures,  \* _lint_all's failures: path -> PyNone or the message
  session,        \* the StrudelLinter of this run: _playwright, _page, times entered
  result,         \* how compile_project ended: returned value or raised exception
  logDir,         \* settings.log_dir: whether it exists, log lines and reports appended
  outDir,         \* settings.out_dir: whether it exists, and its files
  fsAtStart,      \* outDir and logDir as the current run found them
  history,        \* per finished run: its result, its reports, what it changed
  call            \* a direct call of one function: which, its argument, its result

vars == <<tracksDir, settings, world, run, pc, idx, artifacts, lintQueue, lintIdx,
          lintCalls, lint_failures, session, result, logDir, outDir, fsAtStart, history,
          call>>

Paths == 1..Len(tracksDir)

\* The answers the environment can give.
LintOutcomes == {"ok", "fail", "raise", "raise_empty"}
Unset == "unset"
\* The environment answers a question the first time it is asked and keeps
\* to the answer afterwards.
Allowed(answered, choices) == IF answered = Unset THEN choices ELSE {answered}

Running == [kind |-> "running", value |-> -1, exc |-> ""]
Returned(v) == [kind |-> "returned", value |-> v, exc |-> ""]
Raised(e) == [kind |-> "raised", value |-> -1, exc |-> e]

\* No function is being called directly: compile_project is what runs.
NoCall == [fn |-> "none"]

\* evaluating: the paths whose page.evaluate has been issued and has not
\* returned yet.
NoSession == [playwright |-> "none", page |-> "none", entered |-> 0, evaluating |-> {}]

\* Logger._log: the line goes to the log file whatever the console level.
LogLine(log, level, message) ==
  [log EXCEPT !.lines = Append(@, [run |-> run, level |-> level, message |-> message])]

\* Every report says "success".
EmitReportSuccess(log, arts, success) ==
  [log EXCEPT !.reports = Append(@,
     [run |-> run,
      success |-> TRUE,
      tracks |-> [i \in 1..Len(arts) |->
                    [slug |-> ArtifactSlug(arts[i]),
                     path |-> arts[i].path,
                     errors |-> arts[i].errors,
                     warnings |-> arts[i].warnings]]])]

\* _emit_report(logger, artifacts, success=success)
EmitReport(log, arts, success) ==
  [log EXCEPT !.reports = Append(@,
     [run |-> run,
      success |-> success,
      tracks |-> [i \in 1..Len(arts) |->
                    [slug |-> ArtifactSlug(arts[i]),
                     path |-> arts[i].path,
                     errors |-> arts[i].errors,
                     warnings |-> arts[i].warnings]]])]

\* compile_project is about to be called on a directory of files.
DriverInit(files) ==
  /\ tracksDir \in UNION {[1..n -> files] : n \in 0..MaxTracks}
  /\ settings \in [formats : FormatChoices, check_only : BOOLEAN]
  /\ world = [asset |-> Unset, enter |-> Unset, close |-> Unset, linesep |-> Unset,
              lint |-> [p \in Paths |-> Unset]]
  /\ run = 1
  /\ pc = "idle"
  /\ idx = 1
  /\ artifacts = <<>>
  /\ lintQueue = <<>>
  /\ lintIdx = 1
  /\ lintCalls = <<>>
  /\ lint_failures = [p \in Paths |-> PyNone]
  /\ session = NoSession
  /\ result = Running
  /\ logDir = [exists |-> FALSE, lines |-> <<>>, reports |-> <<>>]
  /\ outDir = [exists |-> FALSE, files |-> <<>>]
  /\ fsAtStart = [out |-> outDir, log |-> logDir]
  /\ history = <<>>
  /\ call = NoCall

Init == DriverInit(SourceFiles)

\* --------------------------------------------------------- _write_outputs
FileName(stem, ext) == [stem |-> stem, ext |-> ext]

\* Path.write_text: the file is created or replaced.
Put(files, name, content) ==
  [n \in (DOMAIN files) \cup {name} |-> IF n = name THEN content ELSE files[n]]

OsLinesep(platform) == IF platform = "nt" THEN <<CR, LF>> ELSE <<LF>>

TrackPayload(artifact) ==
  [slug |-> ArtifactSlug(artifact),
   metadata |-> artifact.metadata,
   code |-> artifact.code,
   warnings |-> artifact.warnings]

AggregatePayload(arts) ==
  [tracks |-> [i \in 1..Len(arts) |->
                 [slug |-> ArtifactSlug(arts[i]),
                  path |-> arts[i].path,
                  metadata |-> arts[i].metadata,
                  code |-> arts[i].code,
                  warnings |-> arts[i].warnings]]]

Markdown(artifact) ==
  [title |-> IF "title" \in artifact.metadata.keys
             THEN Get(artifact.metadata, "title") ELSE ArtifactSlug(artifact),
   slug |-> ArtifactSlug(artifact),
   source |-> artifact.path,
   warnings |-> artifact.warnings,
   metadata |-> artifact.metadata,
   code |-> artifact.code]

\* What the file of one artifact holds, per format.
TrackContent(artifact, ext, platform) ==
  CASE ext = "json" -> TrackPayload(artifact)
    [] ext = "md" -> Markdown(artifact)
    [] ext = "strudel" -> WriteNewlines(artifact.raw_content, OsLinesep(platform))

\* "if artifact.slug:" write <slug>.<ext>
WriteTrack(files, artifact, slug, ext, platform) ==
  IF Truthy(slug)
  THEN Put(files, FileName(slug.s, ext), TrackContent(artifact, ext, platform))
  ELSE files

\* "for artifact in artifacts:" of one format.
RECURSIVE WritePerTrack(_, _, _, _)
WritePerTrack(files, arts, ext, platform) ==
  IF arts = <<>> THEN files
  ELSE WritePerTrack(WriteTrack(files, Head(arts), ArtifactSlug(Head(arts)), ext, platform),
                     Tail(arts), ext, platform)

NormalizedFormats(formats) == {LowerFormat(fmt) : fmt \in formats}

WriteJson(files, arts, formats, platform) ==
  IF "json" \in formats
  THEN WritePerTrack(Put(files, FileName(<<"tracks">>, "json"), AggregatePayload(arts)),
                     arts, "json", platform)
  ELSE files

WriteMd(files, arts, formats, platform) ==
  IF "md" \in formats THEN WritePerTrack(files, arts, "md", platform) ELSE files

WriteRaw(files, arts, formats, platform) ==
  IF "raw" \in formats THEN WritePerTrack(files, arts, "strudel", platform) ELSE files

\* The files of out_dir after _write_outputs has written every format.
WrittenFiles(files, arts, formats, platform) ==
  WriteRaw(WriteMd(WriteJson(files, arts, formats, platform), arts, formats, platform),
           arts, formats, platform)

\* ------------------------------------------------------- compile_project
\* Logger(...), _prepare_log_file: the log directory and this run's log file
\* are created, then "Starting compilation" is logged.
StartRun ==
  /\ pc = "idle"
  /\ fsAtStart' = [out |-> outDir, log |-> logDir]
  /\ logDir' = LogLine([logDir EXCEPT !.exists = TRUE], "info", "Starting compilation")
  /\ pc' = "discover"
  /\ UNCHANGED <<call, tracksDir, settings, world, run, idx, artifacts, lintQueue, lintIdx,
                 lintCalls, lint_failures, session, result, outDir, history>>

\* track_paths = sorted(tracks_dir.glob("*.strudel"))
Discover ==
  /\ pc = "discover"
  /\ logDir' = IF Len(tracksDir) = 0
               THEN LogLine(logDir, "warn", "No .strudel files discovered.")
               ELSE logDir
  /\ idx' = 1
  /\ pc' = "load"
  /\ UNCHANGED <<call, tracksDir, settings, world, run, artifacts, lintQueue, lintIdx,
                 lintCalls, lint_failures, session, result, outDir, fsAtStart, history>>

\* An exception leaves load_track and the loading loop.
LoadRaises(exc) ==
  /\ result' = Raised(exc)
  /\ pc' = "finally"
  /\ UNCHANGED <<artifacts, logDir, idx>>

\* load_track returned r.
Loaded(r) ==
  IF r.raised # "none" THEN LoadRaises(r.raised)
  ELSE /\ artifacts' = Append(artifacts, r.artifact)
       /\ logDir' = LogLine(logDir, r.logged.level, r.logged.message)
       /\ idx' = idx + 1
       /\ UNCHANGED <<result, pc>>

\* One turn of "for path in track_paths": load_track, artifacts.append.
LoadNext ==
  /\ pc = "load"
  /\ idx <= Len(tracksDir)
  /\ IF ~tracksDir[idx].readable THEN LoadRaises("OSError")
     ELSE Loaded(LoadTrack(idx, tracksDir[idx].bytes))
  /\ UNCHANGED <<call, tracksDir, settings, world, run, lintQueue, lintIdx, lintCalls,
                 lint_failures, session, outDir, fsAtStart, history>>

\* fatal_tracks: the paths whose artifact has errors.
FatalTracks(arts) == {i \in 1..Len(arts) : arts[i].errors # <<>>}

\* fatal_tracks is filled by the loop in a way that forgets all but the last
\* track: the structural gate would let a batch through on its last track.
HasFatalTracksLastOnly(arts) == arts # <<>> /\ arts[Len(arts)].errors # <<>>

\* "if fatal_tracks:"
HasFatalTracks(arts) == FatalTracks(arts) # {}

\* "if fatal_tracks:" after the loading loop.
GateStructural ==
  /\ pc = "load"
  /\ idx > Len(tracksDir)
  /\ IF HasFatalTracks(artifacts)
     THEN /\ logDir' = EmitReport(
                         LogLine(logDir, "error", "Compilation aborted due to validation errors"),
                         artifacts, FALSE)
          /\ result' = Returned(1)
          /\ pc' = "finally"
     ELSE /\ pc' = "lint_tracks"
          /\ UNCHANGED <<logDir, result>>
  /\ UNCHANGED <<call, tracksDir, settings, world, run, idx, artifacts, lintQueue, lintIdx,
                 lintCalls, lint_failures, session, outDir, fsAtStart, history>>

\* ------------------------------------------------------------ lint_tracks
\* artifacts = [artifact for artifact in artifacts if artifact.code]
WithCode(arts) ==
  LET keep == SelectSeq(arts, LAMBDA a : a.code # <<>>)
  IN [i \in 1..Len(keep) |-> keep[i].path]

\* The message _lint_all records for an outcome of linter.lint.
FailureMessage(outcome) ==
  CASE outcome = "fail" -> Msg("Unexpected token")
    [] outcome = "raise" -> Msg("Evaluation failed")
    [] outcome = "raise_empty" -> Msg("")
    [] OTHER -> PyNone

\* The lint gate never closes.
HasFailuresNever(failures) == FALSE

\* "if lint_failures:": the dict has a key.
HasFailures(failures) == \E p \in DOMAIN failures : failures[p].t # "none"

\* "failure = lint_failures.get(artifact.path); if failure:"
FailureRecorded(failure) == failure.t = "msg" /\ failure.s # ""

\* lint_tracks up to "async with": the template check and the code filter.
\* compile_project catches the FileNotFoundError.
LintTracksBegin ==
  /\ pc = "lint_tracks"
  /\ \E a \in Allowed(world.asset, {"present", "missing"}) :
       /\ world' = [world EXCEPT !.asset = a]
       /\ IF a = "missing"
          THEN /\ logDir' = EmitReport(LogLine(logDir, "error", "Linter asset missing"),
                                       artifacts, FALSE)
               /\ result' = Returned(1)
               /\ pc' = "finally"
               /\ UNCHANGED lintQueue
          ELSE /\ lintQueue' = WithCode(artifacts)
               /\ pc' = IF WithCode(artifacts) = <<>> THEN "gate_lint" ELSE "aenter"
               /\ UNCHANGED <<logDir, result>>
  /\ lintIdx' = 1
  /\ UNCHANGED <<call, tracksDir, settings, run, idx, artifacts, lintCalls, lint_failures,
                 session, outDir, fsAtStart, history>>

\* StrudelLinter.__aenter__.  A failure to start Playwright is raised as
\* RuntimeError, which compile_project catches; a failure of launch, new_page,
\* goto or wait_for_function leaves __aenter__ as it is, with the runtime
\* started, and __aexit__ is not run for a failed __aenter__.
SessionEnter ==
  /\ pc = "aenter"
  /\ \E m \in Allowed(world.enter, {"ok", "start", "setup"}) :
       /\ world' = [world EXCEPT !.enter = m]
       /\ CASE m = "start" ->
                 /\ session' = [session EXCEPT !.entered = @ + 1]
                 /\ logDir' = EmitReport(LogLine(logDir, "error", "Failed to start Playwright."),
                                         artifacts, FALSE)
                 /\ result' = Returned(1)
                 /\ pc' = "finally"
            [] m = "setup" ->
                 /\ session' = [session EXCEPT !.entered = @ + 1, !.playwright = "started"]
                 /\ result' = Raised("PlaywrightError")
                 /\ pc' = "finally"
                 /\ UNCHANGED logDir
            [] m = "ok" ->
                 /\ session' = [playwright |-> "started", page |-> "open",
                                entered |-> session.entered + 1, evaluating |-> {}]
                 /\ pc' = "lint"
                 /\ UNCHANGED <<logDir, result>>
  /\ UNCHANGED <<call, tracksDir, settings, run, idx, artifacts, lintQueue, lintIdx, lintCalls,
                 lint_failures, outDir, fsAtStart, history>>

\* The loop body runs on one call at a time.
CallsOverlap(evaluating) == TRUE

\* "result = await linter.lint(...)": the loop goes on when the call is over.
Awaited(evaluating) == evaluating = {}

\* One turn of "for artifact in artifacts" in _lint_all: linter.lint hands
\* the code to page.evaluate.
LintCall ==
  /\ pc = "lint"
  /\ lintIdx <= Len(lintQueue)
  /\ Awaited(session.evaluating)
  /\ session.page = "open"
  /\ session' = [session EXCEPT !.evaluating = @ \cup {lintQueue[lintIdx]}]
  /\ lintCalls' = Append(lintCalls, lintQueue[lintIdx])
  /\ lintIdx' = lintIdx + 1
  /\ UNCHANGED <<call, tracksDir, settings, world, run, pc, idx, artifacts, lintQueue,
                 lint_failures, result, logDir, outDir, fsAtStart, history>>

\* page.evaluate is over: a result, or an exception of the collaborator,
\* which is recorded as the track's failure ("continue").
LintReturn ==
  /\ pc = "lint"
  /\ \E p \in session.evaluating :
       /\ \E o \in Allowed(world.lint[p], LintOutcomes) :
            /\ world' = [world EXCEPT !.lint[p] = o]
            /\ lint_failures' = IF o = "ok" THEN lint_failures
                                ELSE [lint_failures EXCEPT ![p] = FailureMessage(o)]
       /\ session' = [session EXCEPT !.evaluating = @ \ {p}]
  /\ UNCHANGED <<call, tracksDir, settings, run, pc, idx, artifacts, lintQueue, lintIdx,
                 lintCalls, result, logDir, outDir, fsAtStart, history>>

\* StrudelLinter.__aexit__: close the page's context, then stop the runtime.
\* A failure of the close leaves __aexit__ before the runtime is stopped.
SessionExit ==
  /\ pc = "lint"
  /\ lintIdx > Len(lintQueue)
  /\ session.evaluating = {}
  /\ \E c \in Allowed(world.close, {"ok", "fail"}) :
       /\ world' = [world EXCEPT !.close = c]
       /\ IF c = "ok"
          THEN /\ session' = [session EXCEPT !.page = "closed", !.playwright = "stopped"]
               /\ pc' = "gate_lint"
               /\ UNCHANGED result
          ELSE /\ result' = Raised("PlaywrightError")
               /\ pc' = "finally"
               /\ UNCHANGED session
  /\ UNCHANGED <<call, tracksDir, settings, run, idx, artifacts, lintQueue, lintIdx, lintCalls,
                 lint_failures, logDir, outDir, fsAtStart, history>>

\* "artifact.lint_error = failure; artifact.errors.append(...)"
MarkOne(artifact, failure) ==
  IF FailureRecorded(failure)
  THEN [artifact EXCEPT !.lint_error = failure,
                        !.errors = Append(@, "Lint failed: " \o failure.s)]
  ELSE artifact

\* "for artifact in artifacts" under "if lint_failures:".
MarkLintFailures(arts, failures) ==
  [i \in 1..Len(arts) |-> MarkOne(arts[i], failures[arts[i].path])]

\* The lint gate closes on the marked artifacts.
LintAbort(marked) ==
  /\ artifacts' = marked
  /\ logDir' = EmitReport(LogLine(logDir, "error", "Compilation aborted due to lint errors"),
                          marked, FALSE)
  /\ result' = Returned(1)
  /\ pc' = "finally"

\* "if lint_failures:" after lint_tracks has returned.
GateLint ==
  /\ pc = "gate_lint"
  /\ IF HasFailures(lint_failures)
     THEN LintAbort(MarkLintFailures(artifacts, lint_failures))
     ELSE /\ pc' = "write_stage"
          /\ UNCHANGED <<artifacts, logDir, result>>
  /\ UNCHANGED <<call, tracksDir, settings, world, run, idx, lintQueue, lintIdx, lintCalls,
                 lint_failures, session, outDir, fsAtStart, history>>

\* The writer runs whatever check_only says.
ShouldWriteAlways(s) == TRUE

\* "if not settings.check_only:"
ShouldWrite(s) == ~s.check_only

\* "if not settings.check_only: _write_outputs(...)".  An unsupported format
\* raises ValueError before anything is written.
WriteOutputs ==
  /\ pc = "write_stage"
  /\ ShouldWrite(settings)
  /\ IF NormalizedFormats(settings.formats) \ SUPPORTED_FORMATS # {}
     THEN /\ result' = Raised("ValueError")
          /\ pc' = "finally"
          /\ UNCHANGED <<outDir, logDir, world>>
     ELSE \E platform \in Allowed(world.linesep, {"posix", "nt"}) :
            /\ world' = [world EXCEPT !.linesep = platform]
            /\ outDir' = [exists |-> TRUE,
                          files |-> WrittenFiles(outDir.files, artifacts,
                                                 NormalizedFormats(settings.formats), platform)]
            /\ logDir' = LogLine(logDir, "info", "Artifacts written")
            /\ pc' = "report"
            /\ UNCHANGED result
  /\ UNCHANGED <<call, tracksDir, settings, run, idx, artifacts, lintQueue, lintIdx, lintCalls,
                 lint_failures, session, fsAtStart, history>>

\* "else: logger.info('Check-only mode: outputs not written.')"
SkipWrite ==
  /\ pc = "write_stage"
  /\ ~ShouldWrite(settings)
  /\ logDir' = LogLine(logDir, "info", "Check-only mode: outputs not written.")
  /\ pc' = "report"
  /\ UNCHANGED <<call, tracksDir, settings, world, run, idx, artifacts, lintQueue, lintIdx,
                 lintCalls, lint_failures, session, result, outDir, fsAtStart, history>>

\* _emit_report(success=True), "Compilation complete", return 0.
ReportSuccess ==
  /\ pc = "report"
  /\ logDir' = LogLine(EmitReport(logDir, artifacts, TRUE), "info", "Compilation complete")
  /\ result' = Returned(0)
  /\ pc' = "finally"
  /\ UNCHANGED <<call, tracksDir, settings, world, run, idx, artifacts, lintQueue, lintIdx,
                 lintCalls, lint_failures, session, outDir, fsAtStart, history>>

\* The reports this log holds of run r.
ReportsOf(log, r) == SelectSeq(log.reports, LAMBDA rep : rep.run = r)

\* "finally: logger.flush()": the run is over.
Finally ==
  /\ pc = "finally"
  /\ history' = Append(history,
       [result |-> result,
        reports |-> ReportsOf(logDir, run),
        outChanged |-> outDir # fsAtStart.out,
        logChanged |-> logDir # fsAtStart.log])
  /\ pc' = "done"
  /\ UNCHANGED <<call, tracksDir, settings, world, run, idx, artifacts, lintQueue, lintIdx,
                 lintCalls, lint_failures, session, result, logDir, outDir, fsAtStart>>

\* compile_project is called again with the same settings over the same files.
Rerun ==
  /\ pc = "done"
  /\ run < MaxRuns
  /\ run' = run + 1
  /\ pc' = "idle"
  /\ idx' = 1
  /\ artifacts' = <<>>
  /\ lintQueue' = <<>>
  /\ lintIdx' = 1
  /\ lintCalls' = <<>>
  /\ lint_failures' = [p \in Paths |-> PyNone]
  /\ session' = NoSession
  /\ result' = Running
  /\ UNCHANGED <<call, tracksDir, settings, world, logDir, outDir, fsAtStart, history>>

Next ==
  \/ StartRun
  \/ Discover
  \/ LoadNext
  \/ GateStructural
  \/ LintTracksBegin
  \/ SessionEnter
  \/ LintCall
  \/ LintReturn
  \/ SessionExit
  \/ GateLint
  \/ WriteOutputs
  \/ SkipWrite
  \/ ReportSuccess
  \/ Finally
  \/ Rerun

Spec == Init /\ [][Next]_vars

\* ------------------------------------------------------- direct calls
\* validate_pattern_code, validate_metadata and load_track called on their
\* own, as the tests of the repository call them, on inputs put together from
\* small parts.  compile_project does not run in these behaviours.
driverVars == <<tracksDir, settings, world, run, pc, idx, artifacts, lintQueue, lintIdx,
                lintCalls, lint_failures, session, result, logDir, outDir, fsAtStart,
                history>>

NotCompiling ==
  /\ tracksDir = <<>>
  /\ settings = [formats |-> SUPPORTED_FORMATS, check_only |-> TRUE]
  /\ world = [asset |-> Unset, enter |-> Unset, close |-> Unset, linesep |-> Unset,
              lint |-> <<>>]
  /\ run = 1
  /\ pc = "direct"
  /\ idx = 1
  /\ artifacts = <<>>
  /\ lintQueue = <<>>
  /\ lintIdx = 1
  /\ lintCalls = <<>>
  /\ lint_failures = <<>>
  /\ session = NoSession
  /\ result = Running
  /\ logDir = [exists |-> FALSE, lines |-> <<>>, reports |-> <<>>]
  /\ outDir = [exists |-> FALSE, files |-> <<>>]
  /\ fsAtStart = [out |-> outDir, log |-> logDir]
  /\ history = <<>>

\* A call about to be made: parts is how the argument was put together.
Pending(fn, parts, arg) ==
  [fn |-> fn, parts |-> parts, arg |-> arg, done |-> FALSE, ret |-> PyNone]

\* The pieces pattern code is written from, each with what a reader expects
\* of it: the float repr of every gain literal above 1 in it, in order, and
\* whether it holds a tempo call once whitespace is taken out.
Snippet(text, gain, tempo) == [text |-> text, gain |-> gain, tempo |-> tempo]

CodeSnippets ==
  { Snippet(<<SP>>, <<>>, FALSE),
    Snippet(<<TAB, LF>>, <<>>, FALSE),
    Snippet(<<"s(\"bd\")">>, <<>>, FALSE),
    Snippet(<<"setcpm", "(", "9", "0", ")">>, <<>>, TRUE),
    Snippet(<<"setcpm", SP, "(", "9", "0", ")">>, <<>>, TRUE),
    Snippet(<<"setcpm", TAB, "(", "9", "0", ")">>, <<>>, TRUE),
    Snippet(<<"setcps", "(", "1", ")">>, <<>>, TRUE),
    Snippet(<<".gain", "(", "1", ".", "5", ")">>, <<"1.5">>, FALSE),
    Snippet(<<".gain", "(", "0", ".", "8", ")">>, <<>>, FALSE),
    Snippet(<<".gain", "(", SP, "2", SP, ")">>, <<"2.0">>, FALSE),
    Snippet(<<".gain", "(", "1", ")">>, <<>>, FALSE),
    Snippet(<<".gain", "(", "-", "2", ")">>, <<>>, FALSE),
    Snippet(<<".gain", "(", "\"[0.4 1]*4\"", ")">>, <<>>, FALSE) }

\* The text a sequence of snippets spells.
PartsText(parts) == ConcatUpTo([i \in 1..Len(parts) |-> parts[i].text], Len(parts))

CodeInputs ==
  {Pending("validate_pattern_code", parts, PyStr(PartsText(parts))) :
     parts \in UNION {[1..n -> CodeSnippets] : n \in 0..MaxSnippets}}
  \cup {Pending("validate_pattern_code", <<>>, v) : v \in {PyNone, PyInt(3), PyList(<<>>)}}

\* errors, warnings = validate_pattern_code(code)
CallValidatePatternCode ==
  /\ call.fn = "validate_pattern_code"
  /\ ~call.done
  /\ call' = [call EXCEPT !.done = TRUE, !.ret = ValidatePatternCode(call.arg)]
  /\ UNCHANGED driverVars

\* A key the mapping does not have.
Absent == [t |-> "absent"]

\* The mapping with the fields of the record fields that are not Absent.
MakeDict(fields) ==
  PyDict({k \in MetadataKeys : fields[k].t # "absent"},
         [k \in {j \in MetadataKeys : fields[j].t # "absent"} |-> fields[k]])

GoodTags == PyList(<<PyStr(<<"x">>), PyStr(<<"y">>)>>)

\* Every string of at most MaxSlugLen characters over a small alphabet.
SlugAlphabet == {"a", DASH, "A", LF}
SlugStrings == UNION {[1..n -> SlugAlphabet] : n \in 0..MaxSlugLen}

\* Mappings that differ in the slug only, with and without the
\* recommended fields.
SlugSweep ==
  [slug : {PyStr(text) : text \in SlugStrings} \cup {PyNone, PyInt(0), PyBool(TRUE)},
   title : {PyStr(<<"T">>)},
   tempo : {PyInt(90)},
   mood : {PyStr(<<"m">>)},
   tags : {GoodTags},
   summary : {PyStr(<<"s">>), Absent},
   resources : {Absent}]

\* Mappings over a few values of every field.
FieldSweep ==
  [slug : {Absent, PyStr(<<"a">>), PyStr(<<"a", LF>>), PyInt(5)},
   title : {Absent, PyStr(<<"T">>), PyStr(<<SP>>), PyInt(3)},
   tempo : {Absent, PyInt(90), PyInt(0), PyFloat(905, 10), PyStr(<<"1", "2", "0">>),
            PyStr(<<"f", "a", "s", "t">>), PyBool(TRUE), PyBigInt},
   mood : {Absent, PyStr(<<"m">>), PyStr(<<>>)},
   tags : {Absent, PyList(<<>>), PyList(<<PyStr(<<"x">>)>>), GoodTags,
           PyList(<<PyStr(<<"X">>), PyInt(3)>>), PyStr(<<"x">>)},
   summary : {Absent, PyStr(<<"s">>), PyStr(<<>>)},
   resources : {Absent, PyList(<<PyStr(<<"r">>), PyStr(<<>>)>>), PyStr(<<"r">>)}]

MetadataInputs ==
  {Pending("validate_metadata", fields, MakeDict(fields)) :
     fields \in SlugSweep \cup FieldSweep}
  \cup {Pending("validate_metadata", <<>>, v) : v \in {PyNone, PyStr(<<"a">>), PyList(<<>>)}}

\* errors, warnings = validate_metadata(metadata)
CallValidateMetadata ==
  /\ call.fn = "validate_metadata"
  /\ ~call.done
  /\ call' = [call EXCEPT !.done = TRUE, !.ret = ValidateMetadata(call.arg)]
  /\ UNCHANGED driverVars

\* Files for load_track: the source files of the runs, and files whose front
\* matter is not closed, is empty, does not decode, decodes to a scalar, or
\* holds a tempo of the wrong kind or size.
OpenOnly == Delimiter \o <<LF, "slug: a", LF>> \o PatternLines \o <<LF>>
LoadFiles ==
  {f.bytes : f \in {g \in SourceFiles : g.readable}}
  \cup {OpenOnly}
  \cup {TrackFile(meta, nl) :
          meta \in {<<>>, <<"???">>, <<"plain text">>, <<"slug: a", "???">>,
                    <<"slug: a", "title: T", "tempo: fast">>,
                    <<"slug: a", "title: T", "tempo: 1000...000">>,
                    <<"title: T", "tempo: 1000...000">>},
          nl \in {<<LF>>, <<CR, LF>>}}

LoadInputs == {Pending("load_track", <<>>, bytes) : bytes \in LoadFiles}

\* artifact = load_track(path)
CallLoadTrack ==
  /\ call.fn = "load_track"
  /\ ~call.done
  /\ call' = [call EXCEPT !.done = TRUE, !.ret = LoadTrack(1, call.arg)]
  /\ UNCHANGED driverVars

\* The pieces a text handed to _split_front_matter is written from: the
\* delimiter, the delimiter at the start of a line, the line terminators and
\* their halves, and a dash.
SplitPieces == {Delimiter, <<LF>> \o Delimiter, <<LF>>, <<CR, LF>>, <<CR>>, <<DASH>>}

SplitTexts ==
  {ConcatUpTo(pieces, Len(pieces)) :
     pieces \in UNION {[1..n -> SplitPieces] : n \in 0..MaxPieces}}

SplitInputs == {Pending("_split_front_matter", <<>>, text) : text \in SplitTexts}

\* metadata_text, code = _split_front_matter(raw_text)
CallSplitFrontMatter ==
  /\ call.fn = "_split_front_matter"
  /\ ~call.done
  /\ call' = [call EXCEPT !.done = TRUE, !.ret = SplitFrontMatter(call.arg)]
  /\ UNCHANGED driverVars

CallInit ==
  NotCompiling /\ call \in CodeInputs \cup MetadataInputs \cup LoadInputs \cup SplitInputs

CallNext ==
  \/ CallValidatePatternCode
  \/ CallValidateMetadata
  \/ CallLoadTrack
  \/ CallSplitFrontMatter

CallSpec == CallInit /\ [][CallNext]_vars

\* ------------------------------------------- runs over malformed files
\* compile_project over directories of files without front matter (none at
\* all, an opening delimiter that is never closed, four dashes, an empty
\* file) next to valid files.
FrontMatterFiles ==
  { Readable(BadTrack),
    Readable(OpenOnly),
    Readable(<<DASH, DASH, DASH, DASH, CR, LF>> \o PatternLines \o <<CR, LF>>),
    Readable(<<>>),
    Readable(TrackFile(FullMeta("slug: a"), <<LF>>)),
    Readable(TrackFile(MinimalMeta("slug: b"), <<CR, LF>>)) }

FrontMatterInit == DriverInit(FrontMatterFiles)

FrontMatterSpec == FrontMatterInit /\ [][Next]_vars

\* =================================================================== claims
\* What the claims speak of, in terms of the inputs and the environment.
AllReadable == \A p \in Paths : tracksDir[p].readable

\* The errors load_track finds in the file at path p.
SourceErrors(p) == LoadTrack(p, tracksDir[p].bytes).artifact.errors

\* Every track can be read and none has a structural error.
CleanBatch == AllReadable /\ \A p \in Paths : SourceErrors(p) = <<>>

\* Every track has been loaded and some artifact carries an error that
\* load_track found (the lint gate has marked nothing on it).
StructuralErrorInBatch ==
  /\ Len(artifacts) = Len(tracksDir)
  /\ \E i \in 1..Len(artifacts) :
       artifacts[i].errors # <<>> /\ artifacts[i].lint_error = PyNone

UnsupportedFormats == NormalizedFormats(settings.formats) \ SUPPORTED_FORMATS # {}

\* The lint pass ran to its end and every lint call passed.
LintPassed ==
  /\ world.asset = "present"
  /\ Paths # {} => world.enter = "ok" /\ world.close = "ok"
  /\ \A p \in Paths : world.lint[p] = "ok"

\* lint_tracks is over in this run (it returned or raised), or never began.
LintTracksOver == pc \in {"gate_lint", "write_stage", "report", "finally", "done"}

\* The writer was called in this run.
WriterInvoked ==
  \/ result = Raised("ValueError")
  \/ \E i \in 1..Len(logDir.lines) :
       logDir.lines[i].run = run /\ logDir.lines[i].message = "Artifacts written"

NothingWritten == ~outDir.exists /\ outDir.files = <<>>

\* The one report of the run that has just ended says "success".
ReportedSuccess ==
  /\ Len(ReportsOf(logDir, run)) = 1
  /\ ReportsOf(logDir, run)[1].success

\* C1: once every discovered track is loaded and some artifact has errors,
\* the run returns 1; the lint collaborator is never consulted (not even its
\* template is looked for, in this run or an earlier one over the same
\* files) and nothing is written, also when every other track is valid.
C1_StructuralGateAborts ==
  StructuralErrorInBatch =>
    /\ world.asset = Unset /\ session = NoSession /\ lintCalls = <<>>
    /\ NothingWritten
    /\ pc \in {"finally", "done"} => result = Returned(1)

\* C1 witness: a run over one invalid and one valid track has ended.
C1_Witness ==
  /\ pc = "done" /\ Len(tracksDir) = 2 /\ AllReadable
  /\ SourceErrors(1) # <<>> /\ SourceErrors(2) = <<>>
  /\ result = Returned(1)

\* C2 (as claimed): every run that has ended has appended exactly one report
\* to the log, however it ended.
C2_ReportExactlyOnce == pc = "done" => Len(ReportsOf(logDir, run)) = 1

\* C3 (as claimed): a run that has ended returned 0 if it reported success
\* and 1 if it reported an abort, and it returned 1 whenever settings.formats
\* holds an unsupported format, check_only or not.
C3_ReturnContract ==
  pc = "done" /\ AllReadable =>
    /\ UnsupportedFormats => result = Returned(1)
    /\ \A i \in 1..Len(ReportsOf(logDir, run)) :
         result = Returned(IF ReportsOf(logDir, run)[i].success THEN 0 ELSE 1)

\* C4 (as claimed): when lint_tracks has returned and the collaborator failed
\* some track (a not-ok result, or an exception with any message), the run
\* returns 1, writes nothing, every failed track has lint_error set and one
\* "Lint failed: <message>" entry appended to its errors, and every passed
\* track is as it was loaded.
C4_LintGateMarksFailures ==
  (/\ pc = "done" /\ result.kind = "returned"
   /\ \E i \in 1..Len(lintCalls) : world.lint[lintCalls[i]] # "ok")
  =>
    /\ result = Returned(1)
    /\ outDir = fsAtStart.out
    /\ \A i \in 1..Len(artifacts) :
         IF world.lint[artifacts[i].path] = "ok"
         THEN artifacts[i].lint_error = PyNone /\ artifacts[i].errors = <<>>
         ELSE /\ artifacts[i].lint_error = FailureMessage(world.lint[artifacts[i].path])
              /\ artifacts[i].errors =
                   <<"Lint failed: " \o FailureMessage(world.lint[artifacts[i].path]).s>>

\* C5 (as claimed): the session is entered at most once per batch, and once
\* lint_tracks has returned or raised neither the automation runtime nor the
\* page is still held.
C5_SessionReleased ==
  /\ session.entered <= 1
  /\ LintTracksOver => session.playwright # "started" /\ session.page # "open"

\* C6: the writer is called only in a run with check_only false whose tracks
\* all loaded without errors and whose lint pass ended with no failure; with
\* check_only true the output directory is never created and holds nothing;
\* and a check_only run over a clean batch whose lint pass succeeds returns 0.
C6_WriteOnlyAfterGates ==
  /\ WriterInvoked =>
       /\ ~settings.check_only
       /\ Len(artifacts) = Len(tracksDir)
       /\ \A i \in 1..Len(artifacts) : artifacts[i].errors = <<>>
       /\ lintCalls = lintQueue
       /\ \A p \in Paths : lint_failures[p] = PyNone
  /\ settings.check_only => NothingWritten
  /\ settings.check_only /\ pc = "done" /\ CleanBatch /\ LintPassed => result = Returned(0)

\* C6 witness: a check_only run over a non-empty batch has ended with 0.
C6_Witness ==
  /\ pc = "done" /\ settings.check_only /\ Len(tracksDir) >= 1
  /\ result = Returned(0) /\ NothingWritten

InSeq(x, seq) == \E k \in 1..Len(seq) : seq[k] = x

\* The warnings of artifact i are all in the warnings list ws.
WarningsIn(i, ws) ==
  \A k \in 1..Len(artifacts[i].warnings) : InSeq(artifacts[i].warnings[k], ws)

TrackFileOf(i, ext) == outDir.files[FileName(ArtifactSlug(artifacts[i]).s, ext)]

DistinctSlugs ==
  \A i, j \in 1..Len(artifacts) :
    ArtifactSlug(artifacts[i]) = ArtifactSlug(artifacts[j]) => i = j

\* C7 (as claimed): a run over a batch without structural errors whose lint
\* calls all pass, with supported formats, returns 0 and reports success
\* whatever warnings the tracks carry, and each track's warnings are in the
\* report, in the aggregate json and in the markdown file of its slug.
C7_WarningsNeverBlock ==
  pc = "done" /\ CleanBatch /\ LintPassed /\ ~UnsupportedFormats =>
    /\ result = Returned(0)
    /\ ReportedSuccess
    /\ \A i \in 1..Len(artifacts) :
         /\ ReportsOf(logDir, run)[1].tracks[i].warnings = artifacts[i].warnings
         /\ ~settings.check_only /\ "json" \in NormalizedFormats(settings.formats) =>
              WarningsIn(i, outDir.files[FileName(<<"tracks">>, "json")].tracks[i].warnings)
         /\ ~settings.check_only /\ "md" \in NormalizedFormats(settings.formats) =>
              WarningsIn(i, TrackFileOf(i, "md").warnings)

\* C8 (as claimed): a run over a directory without .strudel files, with
\* supported formats, logs the warning, returns 0 and reports success with no
\* track, whatever the state of the lint collaborator and its template.
C8_EmptyRunSucceeds ==
  pc = "done" /\ Len(tracksDir) = 0 /\ ~UnsupportedFormats =>
    /\ \E i \in 1..Len(logDir.lines) :
         /\ logDir.lines[i].run = run /\ logDir.lines[i].level = "warn"
         /\ logDir.lines[i].message = "No .strudel files discovered."
    /\ result = Returned(0)
    /\ ReportedSuccess
    /\ ReportsOf(logDir, run)[1].tracks = <<>>

\* C9 (as claimed): after a successful writing run with the raw format, the
\* file <slug>.strudel of every track (slugs being distinct) holds exactly
\* the bytes of the track's source file.
C9_RawRoundTrip ==
  (/\ pc = "done" /\ result = Returned(0) /\ ~settings.check_only
   /\ "raw" \in NormalizedFormats(settings.formats) /\ DistinctSlugs)
  => \A i \in 1..Len(artifacts) :
       TrackFileOf(i, "strudel") = tracksDir[artifacts[i].path].bytes

\* Two reports say the same: same success flag, same per-track content.
SameReports(a, b) ==
  /\ Len(a) = Len(b)
  /\ \A i \in 1..Len(a) : a[i].success = b[i].success /\ a[i].tracks = b[i].tracks

\* The first two runs ended the same way.
SameOutcome ==
  /\ history[1].result = history[2].result
  /\ SameReports(history[1].reports, history[2].reports)

\* C10 (as claimed): two check_only runs over the same inputs end with the
\* same result and the same report, and neither run changes anything on the
\* filesystem.
C10_CheckOnlyNoSideEffects ==
  settings.check_only /\ Len(history) >= 2 =>
    /\ SameOutcome
    /\ \A k \in 1..2 : ~history[k].outChanged /\ ~history[k].logChanged

\* C10 (amended): two check_only runs over the same inputs end with the same
\* result and the same report, and neither run creates or changes anything
\* under the output directory; each run does write to the log directory.
C10_CheckOnlyIdempotent ==
  settings.check_only /\ Len(history) >= 2 =>
    /\ SameOutcome
    /\ \A k \in 1..2 : ~history[k].outChanged /\ history[k].logChanged

\* C10 witness: the second check_only run over a non-empty batch has ended.
C10_Witness ==
  /\ pc = "done" /\ run >= 2 /\ settings.check_only /\ Len(tracksDir) >= 1
  /\ history[2].result = Returned(0) /\ history[2].logChanged

\* The lint pass of this run has gone through the whole session.
LintSessionDone == session.entered = 1 /\ session.page = "closed"

\* C18: the lint calls of a run are the artifacts with code, each once and in
\* artifact order; at most one call is in flight at any time, every call is
\* made on the open page of the run's single session, and when the session is
\* over every queued track has been linted, whatever the collaborator raised
\* on the way, with each failure recorded under its own path.
C18_LintOnceInOrder ==
  /\ Cardinality(session.evaluating) <= 1
  /\ session.evaluating # {} => session.page = "open"
  /\ lintCalls # <<>> => session.entered = 1
  /\ lintCalls = SubSeq(lintQueue, 1, lintIdx - 1)
  /\ LintSessionDone =>
       /\ lintCalls = WithCode(artifacts)
       /\ \A i \in 1..Len(lintCalls) :
            lint_failures[lintCalls[i]] = FailureMessage(world.lint[lintCalls[i]])

\* C18 witness: the collaborator raised on the first of two tracks and the
\* second was linted all the same.
C18_Witness ==
  /\ pc = "done" /\ LintSessionDone
  /\ lintCalls = <<1, 2>>
  /\ world.lint[1] = "raise" /\ world.lint[2] = "ok"
  /\ lint_failures[1] = Msg("Evaluation failed") /\ lint_failures[2] = PyNone

\* validate_pattern_code has returned.
PatternCodeChecked == call.fn = "validate_pattern_code" /\ call.done

\* What the caller handed over is no text, or text of nothing but whitespace.
BlankCode ==
  \/ call.arg.t # "str"
  \/ \A i \in 1..Len(call.arg.s) : call.arg.s[i] \in {SP, TAB, LF, CR}

TempoMessage == "Set tempo explicitly with 'setcpm(...)' once near the top."
GainMessage(repr) ==
  "Gain literal " \o repr \o " detected; consider keeping it <= 1 to avoid clipping."

\* The gain warnings a reader expects of the snippets, one per literal
\* above 1, in order of occurrence.
ExpectedGainWarnings(parts) ==
  ConcatUpTo([i \in 1..Len(parts) |->
                [k \in 1..Len(parts[i].gain) |-> GainMessage(parts[i].gain[k])]],
             Len(parts))

\* C13: validate_pattern_code returns the single error "Pattern body is
\* empty." and no warning when it is given None, a value that is no text, or
\* text that is blank once trimmed, and no error for any other text.
C13_EmptyBodyShortCircuit ==
  PatternCodeChecked =>
    IF BlankCode
    THEN call.ret.errors = <<"Pattern body is empty.">> /\ call.ret.warnings = <<>>
    ELSE call.ret.errors = <<>>

\* C13 witness: text of spaces, tabs and line ends only was rejected.
C13_Witness ==
  /\ PatternCodeChecked
  /\ call.arg.t = "str" /\ Len(call.arg.s) >= 3 /\ BlankCode
  /\ call.ret.errors = <<"Pattern body is empty.">>

\* C14: for text that is not blank, the gain warnings returned are one for
\* every .gain(<literal>) whose literal is above 1, in order of occurrence
\* and with repeats kept; literals of 1 or less and arguments that are no
\* numeric literal give no gain warning, and there is no error.
C14_GainWarningPerOccurrence ==
  PatternCodeChecked /\ ~BlankCode =>
    /\ SelectSeq(call.ret.warnings, LAMBDA w : w # TempoMessage)
         = ExpectedGainWarnings(call.parts)
    /\ call.ret.errors = <<>>

\* C14 witness: the same literal above 1 twice, with a literal below 1
\* between them, gave two equal warnings.
C14_Witness ==
  /\ PatternCodeChecked /\ Len(call.parts) = 3
  /\ call.parts[1].gain = <<"1.5">> /\ call.parts[2].text = <<".gain", "(", "0", ".", "8", ")">>
  /\ call.parts[3].gain = <<"1.5">>
  /\ call.ret.warnings = <<TempoMessage, GainMessage("1.5"), GainMessage("1.5")>>

\* C15 (as claimed): for text that is not blank, the missing-tempo warning
\* is returned exactly when no part of the text spells setcpm( or setcps(
\* once spaces, tabs and line ends are taken out.
C15_TempoCallHeuristic ==
  PatternCodeChecked /\ ~BlankCode =>
    ((\E i \in 1..Len(call.ret.warnings) : call.ret.warnings[i] = TempoMessage)
       <=> ~\E i \in 1..Len(call.parts) : call.parts[i].tempo)

\* validate_metadata has ended, on a mapping.
MappingChecked == call.fn = "validate_metadata" /\ call.done /\ call.arg.t = "dict"

Has(k) == k \in call.arg.keys
Val(k) == Get(call.arg, k)

\* A string of lowercase letters and digits in groups joined by single
\* dashes: the whole of it, nothing before or after.
IsKebabCase(s) ==
  /\ Len(s) >= 1
  /\ \A i \in 1..Len(s) :
       \/ s[i] \in LowerLetters \cup Digits
       \/ /\ s[i] = DASH
          /\ 1 < i /\ i < Len(s)
          /\ s[i - 1] # DASH

SlugFormatMessage ==
  "'slug' must be kebab-case (lowercase alphanumerics separated by dashes)."

\* The messages that speak of one field.
MessagesOf(k) ==
  CASE k = "slug" -> {"'slug' is required.", SlugFormatMessage}
    [] k = "title" -> {"'title' must be a non-empty string."}
    [] k = "tempo" -> {"'tempo' (cycles per minute) is required.",
                       "'tempo' must be a positive number.",
                       "'tempo' must be numeric.",
                       "'tempo' should normally be an integer."}
    [] k = "mood" -> {"'mood' is recommended to help downstream curation."}
    [] k = "tags" -> {"'tags' array is recommended for filtering (minimum 2).",
                      "Provide at least 2 tags for better discovery.",
                      "Tag \"X\" should be lowercase."}
                     \cup {"Tag #" \o ToString(i) \o " must be a non-empty string." : i \in 1..3}
    [] k = "summary" -> {"'summary' is recommended to describe the arrangement."}
    [] k = "resources" -> {"'resources' must be a list of strings if provided."}
                          \cup {"Resource #" \o ToString(i) \o " should be a non-empty string." :
                                  i \in 1..3}

About(messages, k) == SelectSeq(messages, LAMBDA msg : msg \in MessagesOf(k))

\* A recommended field that is not there, or is there and empty.
MissingOrEmpty(k) ==
  \/ ~Has(k)
  \/ Val(k).t = "str" /\ Val(k).s = <<>>
  \/ Val(k).t = "list" /\ Val(k).items = <<>>

Recommended == {"mood", "tags", "summary"}

\* slug, title and tempo are valid, and nothing is amiss but recommended
\* fields that are missing or empty.
OnlyRecommendedMissing ==
  /\ Val("slug").t = "str" /\ IsKebabCase(Val("slug").s)
  /\ Val("title").t = "str" /\ \E i \in 1..Len(Val("title").s) : Val("title").s[i] # SP
  /\ Val("tempo").t = "int" /\ Val("tempo").i > 0
  /\ MissingOrEmpty("mood") \/ Val("mood") = PyStr(<<"m">>)
  /\ MissingOrEmpty("tags") \/ (Val("tags").t = "list" /\ Val("tags") = GoodTags)
  /\ MissingOrEmpty("summary") \/ Val("summary") = PyStr(<<"s">>)
  /\ ~Has("resources")

\* C11 (as claimed): on a mapping without slug, title or tempo
\* validate_metadata returns at least one error; on a mapping with valid
\* slug, title and tempo where only recommended fields are missing or empty
\* it returns no error and one warning for each such field, and no other.
C11_RequiredAndRecommended ==
  MappingChecked =>
    /\ (\E k \in {"slug", "title", "tempo"} : ~Has(k)) =>
         call.ret.raised = "none" /\ call.ret.errors # <<>>
    /\ OnlyRecommendedMissing =>
         /\ call.ret.raised = "none" /\ call.ret.errors = <<>>
         /\ \A k \in Recommended :
              Len(About(call.ret.warnings, k)) = IF MissingOrEmpty(k) THEN 1 ELSE 0
         /\ Len(call.ret.warnings) = Cardinality({k \in Recommended : MissingOrEmpty(k)})

\* C12 (as claimed): for a slug that is a string, validate_metadata returns
\* the kebab-case error exactly when the string is not, as a whole, lowercase
\* alphanumeric groups joined by single dashes.
C12_SlugFormatError ==
  MappingChecked /\ Has("slug") /\ Val("slug").t = "str" /\ call.ret.raised = "none" =>
    (InSeq(SlugFormatMessage, call.ret.errors) <=> ~IsKebabCase(Val("slug").s))

\* C19 (as claimed): a slug or title that is there and is no string, and a
\* tempo that is there and is no number, each get at least one error that
\* speaks of that field.
C19_WrongTypedRequired ==
  MappingChecked /\ call.ret.raised = "none" =>
    /\ Has("slug") /\ Val("slug").t # "str" => About(call.ret.errors, "slug") # <<>>
    /\ Has("title") /\ Val("title").t # "str" => About(call.ret.errors, "title") # <<>>
    /\ Has("tempo") /\ Val("tempo").t \notin {"int", "float", "nan", "bigint"} =>
         About(call.ret.errors, "tempo") # <<>>

\* The mapping with field k of the argument and nothing else.
Only(k) == PyDict(call.arg.keys \cap {k}, [j \in call.arg.keys \cap {k} |-> call.arg.get[j]])

\* What validate_metadata says of field k when k is all there is.
OwnErrors(k) == About(ValidateMetadata(Only(k)).errors, k)
OwnWarnings(k) == About(ValidateMetadata(Only(k)).warnings, k)

\* C20 (as claimed): on every mapping validate_metadata returns, as errors
\* and as warnings, the messages each field gets on its own, put together in
\* the order slug, title, tempo, mood, tags, summary, resources; what one
\* field holds takes no message away from another.
C20_FieldOrderIndependent ==
  MappingChecked =>
    /\ call.ret.raised = "none"
    /\ call.ret.errors =
         OwnErrors("slug") \o OwnErrors("title") \o OwnErrors("tempo") \o OwnErrors("mood")
         \o OwnErrors("tags") \o OwnErrors("summary") \o OwnErrors("resources")
    /\ call.ret.warnings =
         OwnWarnings("slug") \o OwnWarnings("title") \o OwnWarnings("tempo")
         \o OwnWarnings("mood") \o OwnWarnings("tags") \o OwnWarnings("summary")
         \o OwnWarnings("resources")

\* C17 (as claimed): load_track on a readable file returns an artifact,
\* whatever the front matter of the file decodes to; no exception leaves it.
C17_LoadNeverRaises ==
  call.fn = "load_track" /\ call.done => call.ret.raised = "none"

\* The content has no front matter block: it does not begin with three
\* dashes, or no line after them begins with three dashes.
LacksFrontMatter(content) ==
  \/ Len(content) < 3
  \/ \E i \in 1..3 : content[i] # DASH
  \/ ~\E i \in 4..(Len(content) - 3) :
        content[i] = LF /\ \A k \in 1..3 : content[i + k] = DASH

FrontMatterRequired == "YAML front matter block is required at top of file."

\* C16: a file without front matter is loaded as an artifact with no
\* metadata and no slug, the whole content as code and the front-matter error
\* first among its errors; in a batch with such a file nothing is linted or
\* written, and the run returns 1 with that error in its report.
C16_NoFrontMatterAborts ==
  /\ \A i \in 1..Len(artifacts) :
       LacksFrontMatter(tracksDir[artifacts[i].path].bytes) =>
         /\ artifacts[i].metadata = PyNone
         /\ ArtifactSlug(artifacts[i]) = PyNone
         /\ artifacts[i].code = artifacts[i].raw_content
         /\ artifacts[i].raw_content = UniversalNewlines(tracksDir[artifacts[i].path].bytes)
         /\ artifacts[i].errors # <<>> /\ artifacts[i].errors[1] = FrontMatterRequired
  /\ \A p \in Paths :
       LacksFrontMatter(tracksDir[p].bytes) =>
         /\ world.asset = Unset /\ session = NoSession /\ lintCalls = <<>>
         /\ NothingWritten
         /\ pc \in {"finally", "done"} =>
              /\ result = Returned(1)
              /\ Len(ReportsOf(logDir, run)) = 1
              /\ ~ReportsOf(logDir, run)[1].success
              /\ ReportsOf(logDir, run)[1].tracks[p].errors[1] = FrontMatterRequired

\* C16 witness: a run over a valid file and a file whose front matter is
\* opened and never closed has ended.
C16_Witness ==
  /\ pc = "done" /\ Len(tracksDir) = 2
  /\ ~LacksFrontMatter(tracksDir[1].bytes)
  /\ tracksDir[2].bytes = OpenOnly
  /\ artifacts[2].metadata = PyNone /\ artifacts[1].errors = <<>>
  /\ result = Returned(1)

\* _split_front_matter has returned.
SplitChecked == call.fn = "_split_front_matter" /\ call.done

\* content starts with the three-character delimiter.
OpensFrontMatter(content) ==
  Len(content) >= 3 /\ \A i \in 1..3 : content[i] = DASH

\* A line feed followed by the delimiter stands at 0-based position e.
LineStartDelimiterAt(content, e) ==
  /\ e + 4 <= Len(content)
  /\ content[e + 1] = LF
  /\ \A k \in 2..4 : content[e + k] = DASH

\* e is the closing marker of content: the first line-start delimiter at or
\* after position 3.
ClosingMarkerAt(content, e) ==
  /\ e >= 3
  /\ LineStartDelimiterAt(content, e)
  /\ \A d \in 3..(e - 1) : ~LineStartDelimiterAt(content, d)

\* m is between without its leading and trailing whitespace.
Trimmed(m, between) ==
  \E a, b \in 0..Len(between) :
    /\ a <= b
    /\ m = [i \in 1..(b - a) |-> between[a + i]]
    /\ \A i \in 1..a : between[i] \in Whitespace
    /\ \A i \in (b + 1)..Len(between) : between[i] \in Whitespace
    /\ b > a => between[a + 1] \notin Whitespace /\ between[b] \notin Whitespace

\* The one line terminator removed in front of the code: CRLF, else LF, else
\* nothing.
LeadingTerminator(rest) ==
  IF Len(rest) >= 2 /\ rest[1] = CR /\ rest[2] = LF THEN <<CR, LF>>
  ELSE IF Len(rest) >= 1 /\ rest[1] = LF THEN <<LF>>
  ELSE <<>>

\* C21: for a content that starts with the delimiter and has a closing
\* marker, _split_front_matter closes the front matter at the first
\* line-start delimiter after position 3, returns as metadata text the
\* trimmed text between the opening and the closing marker, and returns as
\* code what follows the closing marker without one leading line terminator
\* (CRLF if present, otherwise LF, otherwise nothing): the content is the
\* opening marker, the text between, the closing marker, that terminator and
\* the code, in this order.
C21_SplitAtFirstClosingMarker ==
  SplitChecked /\ OpensFrontMatter(call.arg) =>
    \A e \in 3..Len(call.arg) :
      ClosingMarkerAt(call.arg, e) =>
        /\ call.ret.metadata_text.t = "str"
        /\ Trimmed(call.ret.metadata_text.s, Slice(call.arg, 3, e))
        /\ call.arg = Slice(call.arg, 0, e + 4)
                      \o LeadingTerminator(SliceFrom(call.arg, e + 4))
                      \o call.ret.code

\* C21 witness: a content whose front matter loses whitespace on both sides
\* by trimming and whose closing marker is followed by CRLF has been split.
C21_Witness ==
  /\ SplitChecked /\ OpensFrontMatter(call.arg)
  /\ \E e \in 3..Len(call.arg) :
       /\ ClosingMarkerAt(call.arg, e)
       /\ call.ret.metadata_text.t = "str"
       /\ call.ret.metadata_text.s # <<>>
       /\ Len(call.ret.metadata_text.s) < e - 3
       /\ LeadingTerminator(SliceFrom(call.arg, e + 4)) = <<CR, LF>>

\* C24: in _split_front_matter the search for the CRLF-prefixed delimiter
\* never succeeds: a text with no LF-prefixed delimiter at or after position
\* 3 has no CRLF-prefixed one either, so the fallback ends in "no front
\* matter" (no metadata text, the whole text as code), and a split that is
\* made is the one at the LF-prefixed delimiter, with its length.
C24_CrlfFallbackNeverSucceeds ==
  call.fn = "_split_front_matter" /\ OpensFrontMatter(call.arg) =>
    /\ Find(call.arg, <<LF>> \o Delimiter, 3) = -1 =>
         /\ Find(call.arg, <<CR, LF>> \o Delimiter, 3) = -1
         /\ call.done => call.ret = [metadata_text |-> PyNone, code |-> call.arg]
    /\ call.done /\ Find(call.arg, <<LF>> \o Delimiter, 3) # -1 =>
         call.ret = SplitAt(call.arg, <<LF>> \o Delimiter,
                            Find(call.arg, <<LF>> \o Delimiter, 3))

\* C24 witness: a text that opens front matter and goes on with CRLF and two
\* dashes only went through the fallback search and came back unsplit.
C24_Witness ==
  /\ SplitChecked /\ OpensFrontMatter(call.arg)
  /\ OccursAt(call.arg, <<CR, LF, DASH, DASH>>, 3)
  /\ Find(call.arg, <<LF>> \o Delimiter, 3) = -1
  /\ call.ret = [metadata_text |-> PyNone, code |-> call.arg]

\* The write stage of this run went through: the run has ended with 0 and
\* was not check_only.
WriteStageSucceeded ==
  pc = "done" /\ result = Returned(0) /\ ~settings.check_only

\* C22 (as claimed): after a successful write stage every artifact of the
\* batch has output files of its own: <slug>.strudel reads back as the
\* artifact's raw_content, <slug>.json holds the artifact's metadata and
\* code, and no two tracks of the batch have written to the same file, also
\* when two source files declare the same slug.
C22_OwnOutputFiles ==
  WriteStageSucceeded =>
    /\ \A i \in 1..Len(artifacts) :
         /\ "raw" \in NormalizedFormats(settings.formats) =>
              UniversalNewlines(TrackFileOf(i, "strudel")) = artifacts[i].raw_content
         /\ "json" \in NormalizedFormats(settings.formats) =>
              /\ TrackFileOf(i, "json").metadata = artifacts[i].metadata
              /\ TrackFileOf(i, "json").code = artifacts[i].code
    /\ DistinctSlugs

\* Some report of this run says "success".
SuccessReported ==
  \E k \in 1..Len(ReportsOf(logDir, run)) : ReportsOf(logDir, run)[k].success

\* This run has emitted a report, and no report of it says "success".
FailureReported ==
  /\ ReportsOf(logDir, run) # <<>>
  /\ ~SuccessReported

\* C23: a run that has ended reported success exactly if it returned 0, and
\* then every artifact, and every track of the report, has no error, no
\* lint_error and a slug that is not None; at any moment an artifact with a
\* lint_error belongs to a run whose report says success=false.
C23_SuccessIffZero ==
  /\ pc = "done" =>
       /\ SuccessReported <=> result = Returned(0)
       /\ SuccessReported =>
            \A i \in 1..Len(artifacts) :
              /\ artifacts[i].errors = <<>>
              /\ artifacts[i].lint_error = PyNone
              /\ ArtifactSlug(artifacts[i]) # PyNone
              /\ ReportsOf(logDir, run)[1].tracks[i].errors = <<>>
              /\ ReportsOf(logDir, run)[1].tracks[i].slug # PyNone
  /\ (\E i \in 1..Len(artifacts) : artifacts[i].lint_error # PyNone) => FailureReported

\* C23 witness: a run over two tracks has ended with 0 and a success report.
C23_Witness ==
  /\ pc = "done" /\ Len(artifacts) = 2
  /\ result = Returned(0)
  /\ SuccessReported

====
